---- MODULE Spec2Model ----
(***************************************************************************)
(* Know Thy Taste: the response analysis and pattern detection engine      *)
(* (public/js/analysis.js), the Dexie store (public/js/db.js) and the      *)
(* session flow that drives them (src/ktt/web/static/js/app.js).           *)
(*                                                                         *)
(* A response text is represented by what the engine's regular expressions *)
(* see in it: its trimmed length, the vagueness patterns, bonus and        *)
(* penalty cues it matches, its word count, the elements it mentions with  *)
(* the sentiment indicator counts in the window around each mention, and   *)
(* the preference signals and anti-signals it fires.                       *)
(*                                                                         *)
(* Scores are in hundredths (0.5 is 50).  Confidences are exact rationals  *)
(* over the common denominator Scale (0.95 is 95 * Unit).                  *)
(***************************************************************************)
EXTENDS Integers, Sequences, FiniteSets, TLC

\* ---------------------------------------------------------------- bounds
\* The application: movies ever added, sessions ever started, questions of a
\* session.
MaxMovies == 2
MaxSessions == 2
QuestionsPerSession == 1
\* The detection runs over a fixed store: movies in the store, stored
\* responses, detection runs and validations.
MaxStoreMovies == 3
MaxCorpus == 3
MaxRuns == 3
MaxValidations == 2
\* The classifier on its own: the attempt counts a submission is made at.
MaxAttempts == 4
\* Movies and responses of the stores over which coverage is compared.
MaxCoverageMovies == 4
MaxCoverageCorpus == 4
\* Exports and imports of one behaviour.
MaxBackups == 1
\* further saveAndNext calls made while one is awaiting its store write
MaxReentries == 1

\* ------------------------------------------------------ program constants
MIN_RESPONSE_LENGTH == 50
MAX_FOLLOWUP_ATTEMPTS == 3
MaxPatterns == 12

\* ------------------------------------------------------------- arithmetic
Min(a, b) == IF a < b THEN a ELSE b
Max(a, b) == IF a > b THEN a ELSE b

RECURSIVE Gcd(_, _)
Gcd(a, b) == IF b = 0 THEN a ELSE Gcd(b, a % b)

RECURSIVE LcmUpTo(_)
LcmUpTo(n) == IF n <= 1 THEN 1 ELSE (LcmUpTo(n - 1) * n) \div Gcd(LcmUpTo(n - 1), n)

\* Every movie count and every response count of the model divides Unit.
Unit == LcmUpTo(Max(Max(MaxMovies, MaxStoreMovies), MaxCoverageMovies))
        * LcmUpTo(Max(Max(MaxSessions * QuestionsPerSession, MaxCorpus),
                      MaxCoverageCorpus))
Scale == 100 * Unit

RECURSIVE SumOver(_, _)
SumOver(S, w) ==
  IF S = {} THEN 0
  ELSE LET x == CHOOSE y \in S : TRUE IN w[x] + SumOver(S \ {x}, w)

\* --------------------------------------------------------------- lexicon
\* VAGUE_PATTERNS in registry order: category and number of follow-ups.
VAGUE_PATTERNS ==
  << [category |-> "acting",           followUps |-> 4],
     [category |-> "vague_positive",   followUps |-> 4],
     [category |-> "cinematography",   followUps |-> 4],
     [category |-> "music",            followUps |-> 4],
     [category |-> "writing",          followUps |-> 4],
     [category |-> "generic_positive", followUps |-> 4],
     [category |-> "emotional_vague",  followUps |-> 4],
     [category |-> "relatable",        followUps |-> 4] >>

\* positivePatterns and negativePatterns of calculateSpecificityScore.
positivePatterns == << 8, 12, 8, 8, 10, 12, 8, 8, 10, 8, 6, 10 >>
negativePatterns == << 8, 8, 10, 8, 10 >>

\* ELEMENT_PATTERNS: keys in registry order, and the category of each key.
ELEMENT_KEYS ==
  << "visual", "lighting", "color", "score", "soundDesign", "editing",
     "pacing", "structure", "performance", "expression", "dialogue",
     "writing", "direction", "tension", "catharsis", "humor", "themeLoss",
     "themeLove", "themeIsolation", "themeHope", "themeNostalgia",
     "themeIdentity", "themeFamily", "themeMortality", "themePower",
     "themeTime", "themeTruth", "themeAmbition", "immersion", "rewatch" >>

ElementCategory(key) ==
  CASE key \in {"visual", "lighting", "color", "score", "soundDesign",
                "editing", "direction"} -> "technical"
    [] key \in {"pacing", "structure"} -> "structural"
    [] key \in {"performance", "expression"} -> "performance"
    [] key \in {"dialogue", "writing"} -> "writing"
    [] key \in {"tension", "catharsis", "humor"} -> "emotional"
    [] key \in {"immersion", "rewatch"} -> "experience"
    [] OTHER -> "thematic"

\* PREFERENCE_PATTERNS: keys in registry order.
PREFERENCE_KEYS ==
  << "slowPacing", "fastPacing", "ambiguousEndings", "visualStorytelling",
     "subtlety", "emotionalIntensity", "worldBuilding", "practicalEffects" >>

\* ------------------------------------------------------------ the corpus
\* "The dialogue in the diner was brilliant because each reply exactly
\*  undercut the last one."
TxtDialogue ==
  [ name |-> "dialogue", len |-> 89, words |-> 15, vagueHits |-> {},
    bonus |-> {3, 11}, penalty |-> {},
    elems |-> { [key |-> "dialogue", pos |-> 1, neg |-> 0] },
    signals |-> {}, antiSignals |-> {},
    signalHits |-> 0, antiSignalHits |-> 0 ]

\* "I guess the palette was too much for me, and it took me out of the
\*  film more than once."
TxtPalette ==
  [ name |-> "palette", len |-> 87, words |-> 20, vagueHits |-> {},
    bonus |-> {}, penalty |-> {2},
    elems |-> { [key |-> "color", pos |-> 0, neg |-> 2] },
    signals |-> {}, antiSignals |-> {},
    signalHits |-> 0, antiSignalHits |-> 0 ]

\* "It was a meditative and interesting film that I keep thinking about
\*  again and again."
TxtMeditative ==
  [ name |-> "meditative", len |-> 84, words |-> 15, vagueHits |-> {2},
    bonus |-> {}, penalty |-> {},
    elems |-> { [key |-> "pacing", pos |-> 0, neg |-> 0] },
    signals |-> {"slowPacing"}, antiSignals |-> {},
    signalHits |-> 1, antiSignalHits |-> 0 ]

\* "The camera, the lighting, the palette, the score, the sound design, the
\*  editing, the pacing, the structure, the acting, the dialogue, the
\*  screenplay, the direction, the tension and the humor all held up in the
\*  long third act."
TxtEnsemble ==
  [ name |-> "ensemble", len |-> 225, words |-> 38, vagueHits |-> {},
    bonus |-> {9, 10}, penalty |-> {},
    elems |-> { [key |-> k, pos |-> 0, neg |-> 0] :
                  k \in { "visual", "lighting", "color", "score", "soundDesign",
                          "editing", "pacing", "structure", "performance",
                          "dialogue", "writing", "direction", "tension",
                          "humor" } },
    signals |-> {}, antiSignals |-> {},
    signalHits |-> 0, antiSignalHits |-> 0 ]

\* "In the heist the lighting and the editing carried it, since every cut
\*  landed exactly on the beat of the alarm."
TxtHeist ==
  [ name |-> "heist", len |-> 110, words |-> 21, vagueHits |-> {},
    bonus |-> {3, 9, 10}, penalty |-> {},
    elems |-> { [key |-> "lighting", pos |-> 0, neg |-> 0],
                [key |-> "editing", pos |-> 0, neg |-> 0] },
    signals |-> {}, antiSignals |-> {},
    signalHits |-> 0, antiSignalHits |-> 0 ]

\* "The dialogue in the diner scene overlaps like real talk, and the color
\*  palette shifts from amber to cold blue when she leaves."
TxtDiner ==
  [ name |-> "diner", len |-> 126, words |-> 23, vagueHits |-> {},
    bonus |-> {10}, penalty |-> {},
    elems |-> { [key |-> "dialogue", pos |-> 0, neg |-> 0],
                [key |-> "color", pos |-> 0, neg |-> 0] },
    signals |-> {}, antiSignals |-> {},
    signalHits |-> 0, antiSignalHits |-> 0 ]

\* "The dialogue fell flat for me, and every exchange between the two
\*  leads sounded stiff and far too polished to be real."
TxtStiff ==
  [ name |-> "stiff", len |-> 118, words |-> 22, vagueHits |-> {},
    bonus |-> {}, penalty |-> {},
    elems |-> { [key |-> "dialogue", pos |-> 0, neg |-> 2] },
    signals |-> {}, antiSignals |-> {},
    signalHits |-> 0, antiSignalHits |-> 0 ]

\* "I loved the dialogue at the dinner table, but the later exchanges felt
\*  jarring and pulled me out of the evening."
TxtDinner ==
  [ name |-> "dinner", len |-> 112, words |-> 21, vagueHits |-> {},
    bonus |-> {}, penalty |-> {},
    elems |-> { [key |-> "dialogue", pos |-> 1, neg |-> 2] },
    signals |-> {}, antiSignals |-> {},
    signalHits |-> 0, antiSignalHits |-> 0 ]

\* "I loved how slow and meditative the film was, with a deliberate pace
\*  that let every scene breathe."
TxtUnhurried ==
  [ name |-> "unhurried", len |-> 98, words |-> 18, vagueHits |-> {},
    bonus |-> {}, penalty |-> {},
    elems |-> { [key |-> "pacing", pos |-> 1, neg |-> 0] },
    signals |-> {"slowPacing"}, antiSignals |-> {},
    signalHits |-> 4, antiSignalHits |-> 0 ]

\* "The middle hour dragged and felt too slow for a plot this thin, and I
\*  kept checking how much was left."
TxtDragged ==
  [ name |-> "dragged", len |-> 102, words |-> 21, vagueHits |-> {},
    bonus |-> {}, penalty |-> {},
    elems |-> { [key |-> "pacing", pos |-> 0, neg |-> 0],
                [key |-> "writing", pos |-> 0, neg |-> 0] },
    signals |-> {}, antiSignals |-> {"slowPacing"},
    signalHits |-> 0, antiSignalHits |-> 2 ]

\* "Meditative at first, but the last hour dragged badly and I found myself
\*  waiting for it to be over."
TxtWaiting ==
  [ name |-> "waiting", len |-> 98, words |-> 19, vagueHits |-> {},
    bonus |-> {}, penalty |-> {},
    elems |-> { [key |-> "pacing", pos |-> 0, neg |-> 0] },
    signals |-> {"slowPacing"}, antiSignals |-> {"slowPacing"},
    signalHits |-> 1, antiSignalHits |-> 1 ]

\* "Loved it."
TxtShort ==
  [ name |-> "short", len |-> 9, words |-> 2, vagueHits |-> {},
    bonus |-> {}, penalty |-> {},
    elems |-> {}, signals |-> {}, antiSignals |-> {},
    signalHits |-> 0, antiSignalHits |-> 0 ]

\* The empty input field.
NoText ==
  [ name |-> "", len |-> 0, words |-> 1, vagueHits |-> {},
    bonus |-> {}, penalty |-> {},
    elems |-> {}, signals |-> {}, antiSignals |-> {},
    signalHits |-> 0, antiSignalHits |-> 0 ]

Corpus == { TxtDialogue, TxtPalette, TxtMeditative, TxtShort }

\* The texts typed in the application as a whole.
AppTexts == { TxtDialogue, TxtPalette }

\* The texts of the stored responses that detection runs over: one that
\* mentions an element, and one that mentions another element and carries
\* a preference signal.
DetectTexts == { TxtDialogue, TxtMeditative }

\* A text with nothing for the extractor in it, given by what the
\* classifier sees: length, word count, vagueness patterns, bonus cues and
\* penalty cues matched.
GenText(len, words, vagueHits, bonus, penalty) ==
  [ name |-> "generated", len |-> len, words |-> words, vagueHits |-> vagueHits,
    bonus |-> bonus, penalty |-> penalty,
    elems |-> {}, signals |-> {}, antiSignals |-> {},
    signalHits |-> 0, antiSignalHits |-> 0 ]

\* Texts around the length threshold: the empty text, texts of 11 and 49
\* characters and texts of 50 and 120 characters, with none, one or two of
\* the vagueness patterns and some of the cues.
ClassifyTexts ==
  { NoText }
  \cup { GenText(l, 1 + l \div 6, v, b, {}) :
           l \in {11, 49}, v \in {{}, {2}, {1, 5}}, b \in {{}, {11}} }
  \cup { GenText(l, 1 + l \div 6, v, b, p) :
           l \in {50, 120}, v \in {{}, {2}, {1, 5}},
           b \in SUBSET {2, 11}, p \in SUBSET {1, 3, 5} }

\* Texts of the given word counts that match no vagueness pattern, with
\* every combination of the 12 bonus cues and the 5 penalty cues.
CueTexts(wordCounts) ==
  { GenText(6 * w, w, {}, b, p) :
      w \in wordCounts,
      b \in SUBSET (1..Len(positivePatterns)),
      p \in SUBSET (1..Len(negativePatterns)) }

\* ------------------------------------------------- specificity classifier
\* calculateSpecificityScore without the upper clamp.
calculateSpecificityScore_NoUpperClamp(text) ==
  LET score == 50 + SumOver(text.bonus, positivePatterns)
                  - SumOver(text.penalty, negativePatterns)
                  + (IF text.words > 50 THEN 10 ELSE 0)
                  + (IF text.words > 100 THEN 5 ELSE 0)
  IN Max(0, score)

calculateSpecificityScore(text) ==
  LET score == 50 + SumOver(text.bonus, positivePatterns)
                  - SumOver(text.penalty, negativePatterns)
                  + (IF text.words > 50 THEN 10 ELSE 0)
                  + (IF text.words > 100 THEN 5 ELSE 0)
  IN Max(0, Min(100, score))

FirstVague(text) == CHOOSE i \in text.vagueHits : \A j \in text.vagueHits : i <= j

\* analyzeResponse with the score computed before the vagueness patterns
\* are tried: a text that scores 0.5 or more is not vague.
analyzeResponse_ScoreFirst(text) ==
  IF text.len < MIN_RESPONSE_LENGTH
  THEN [ isVague |-> TRUE, vaguenessType |-> "too_short",
         specificityScore |-> 20, followUps |-> 3 ]
  ELSE IF calculateSpecificityScore(text) >= 50
  THEN [ isVague |-> FALSE, vaguenessType |-> "null",
         specificityScore |-> calculateSpecificityScore(text),
         followUps |-> 0 ]
  ELSE IF text.vagueHits # {}
  THEN [ isVague |-> TRUE,
         vaguenessType |-> VAGUE_PATTERNS[FirstVague(text)].category,
         specificityScore |-> 30,
         followUps |-> VAGUE_PATTERNS[FirstVague(text)].followUps ]
  ELSE [ isVague |-> TRUE, vaguenessType |-> "low_specificity",
         specificityScore |-> calculateSpecificityScore(text),
         followUps |-> 3 ]

\* analyzeResponse with the vagueness patterns tried before the length.
analyzeResponse_PatternsFirst(text) ==
  IF text.vagueHits # {}
  THEN [ isVague |-> TRUE,
         vaguenessType |-> VAGUE_PATTERNS[FirstVague(text)].category,
         specificityScore |-> 30,
         followUps |-> VAGUE_PATTERNS[FirstVague(text)].followUps ]
  ELSE IF text.len < MIN_RESPONSE_LENGTH
  THEN [ isVague |-> TRUE, vaguenessType |-> "too_short",
         specificityScore |-> 20, followUps |-> 3 ]
  ELSE IF calculateSpecificityScore(text) < 50
  THEN [ isVague |-> TRUE, vaguenessType |-> "low_specificity",
         specificityScore |-> calculateSpecificityScore(text),
         followUps |-> 3 ]
  ELSE [ isVague |-> FALSE, vaguenessType |-> "null",
         specificityScore |-> calculateSpecificityScore(text),
         followUps |-> 0 ]

analyzeResponse(text) ==
  IF text.len < MIN_RESPONSE_LENGTH
  THEN [ isVague |-> TRUE, vaguenessType |-> "too_short",
         specificityScore |-> 20, followUps |-> 3 ]
  ELSE IF text.vagueHits # {}
  THEN [ isVague |-> TRUE,
         vaguenessType |-> VAGUE_PATTERNS[FirstVague(text)].category,
         specificityScore |-> 30,
         followUps |-> VAGUE_PATTERNS[FirstVague(text)].followUps ]
  ELSE IF calculateSpecificityScore(text) < 50
  THEN [ isVague |-> TRUE, vaguenessType |-> "low_specificity",
         specificityScore |-> calculateSpecificityScore(text),
         followUps |-> 3 ]
  ELSE [ isVague |-> FALSE, vaguenessType |-> "null",
         specificityScore |-> calculateSpecificityScore(text),
         followUps |-> 0 ]

\* getFollowUp reading the list one place further.
getFollowUp_NextIndex(analysis, attemptNumber) ==
  IF analysis.followUps = 0 THEN << "null", 0 >>
  ELSE << analysis.vaguenessType, Min(attemptNumber + 1, analysis.followUps - 1) >>

\* The follow-up is named by the list it comes from and its index in it.
getFollowUp(analysis, attemptNumber) ==
  IF analysis.followUps = 0 THEN << "null", 0 >>
  ELSE << analysis.vaguenessType, Min(attemptNumber, analysis.followUps - 1) >>

\* shouldAcceptResponse without its escape after MAX_FOLLOWUP_ATTEMPTS.
shouldAcceptResponse_NoEscape(analysis, attemptCount) ==
  \/ ~analysis.isVague
  \/ (analysis.specificityScore >= 40 /\ attemptCount >= 1)

\* shouldAcceptResponse with the escape one attempt late.
shouldAcceptResponse_OneLate(analysis, attemptCount) ==
  \/ ~analysis.isVague
  \/ attemptCount > MAX_FOLLOWUP_ATTEMPTS
  \/ (analysis.specificityScore >= 40 /\ attemptCount >= 1)

\* shouldAcceptResponse accepting any vague text after one retry.
shouldAcceptResponse_AnyRetry(analysis, attemptCount) ==
  \/ ~analysis.isVague
  \/ attemptCount >= MAX_FOLLOWUP_ATTEMPTS
  \/ attemptCount >= 1

shouldAcceptResponse(analysis, attemptCount) ==
  \/ ~analysis.isVague
  \/ attemptCount >= MAX_FOLLOWUP_ATTEMPTS
  \/ (analysis.specificityScore >= 40 /\ attemptCount >= 1)

\* ------------------------------------------- element & sentiment extractor
\* positiveCount and negativeCount are the numbers of POSITIVE_INDICATORS and
\* NEGATIVE_INDICATORS that match the text handed to detectSentiment.
detectSentiment(positiveCount, negativeCount) ==
  IF positiveCount > 0 /\ negativeCount > 0 THEN "mixed"
  ELSE IF positiveCount > negativeCount THEN "positive"
  ELSE IF negativeCount > positiveCount THEN "negative"
  ELSE "neutral"

\* pos and neg of an element mention count the indicators inside the window
\* of 100 characters on each side of the first match of the element.
detectLocalSentiment(mention) == detectSentiment(mention.pos, mention.neg)

MentionOf(text, key) == CHOOSE e \in text.elems : e.key = key

\* One entry per element key, in the order of ELEMENT_PATTERNS.
extractElements(text) ==
  LET keys == SelectSeq(ELEMENT_KEYS, LAMBDA k : \E e \in text.elems : e.key = k)
  IN [ i \in 1..Len(keys) |->
         [ key |-> keys[i],
           category |-> ElementCategory(keys[i]),
           sentiment |-> detectLocalSentiment(MentionOf(text, keys[i])) ] ]

\* ------------------------------------------------------ pattern aggregator
Range(s) == { s[i] : i \in 1..Len(s) }

\* signalHits and antiSignalHits of a text are the numbers of signal and
\* anti-signal matchers it fires for the keys of its signals and antiSignals.
\* signalCount with one count for every matcher that fires: the loop over
\* the signals without its break.
SignalCount_NoBreak(key, responses) ==
  SumOver({ i \in 1..Len(responses) : key \in responses[i].responseText.signals },
          [ i \in 1..Len(responses) |-> responses[i].responseText.signalHits ])

\* signalCount, antiSignalCount and matchingResponses of one preference key.
SignalCount(key, responses) ==
  Cardinality({ i \in 1..Len(responses) : key \in responses[i].responseText.signals })

AntiSignalCount(key, responses) ==
  Cardinality({ i \in 1..Len(responses) : key \in responses[i].responseText.antiSignals })

MatchingMovieIds(key, responses) ==
  { responses[i].movieId :
      i \in { j \in 1..Len(responses) : key \in responses[j].responseText.signals } }

PreferenceDetected(key, responses) ==
  /\ SignalCount(key, responses) >= 2
  /\ SignalCount(key, responses) > AntiSignalCount(key, responses) * 2

detectPreferencePatterns(responses) ==
  LET keys == SelectSeq(PREFERENCE_KEYS, LAMBDA k : PreferenceDetected(k, responses))
  IN [ i \in 1..Len(keys) |->
         [ key |-> keys[i],
           strength |-> SignalCount(keys[i], responses),
           movieIds |-> MatchingMovieIds(keys[i], responses) ] ]

\* The element occurrences of all responses, in the order the two nested
\* loops of detectPatterns visit them.
RECURSIVE Occurrences(_)
Occurrences(responses) ==
  IF responses = << >> THEN << >>
  ELSE LET r == Head(responses)
           es == extractElements(r.responseText)
       IN [ i \in 1..Len(es) |->
              [ key |-> es[i].key, category |-> es[i].category,
                sentiment |-> es[i].sentiment, movieId |-> r.movieId ] ]
          \o Occurrences(Tail(responses))

\* The keys of elementData, in insertion order.
RECURSIVE KeysInOrder(_, _)
KeysInOrder(occ, seen) ==
  IF occ = << >> THEN << >>
  ELSE IF Head(occ).key \in seen THEN KeysInOrder(Tail(occ), seen)
  ELSE << Head(occ).key >> \o KeysInOrder(Tail(occ), seen \cup {Head(occ).key})

CountOf(occ, key, sentiments) ==
  Cardinality({ i \in 1..Len(occ) : occ[i].key = key /\ occ[i].sentiment \in sentiments })

\* elementData without the mixed occurrences.
elementData_MixedDropped(occ, key) ==
  [ category |-> ElementCategory(key),
    movieIds |-> { occ[i].movieId : i \in { j \in 1..Len(occ) : occ[j].key = key } },
    positiveCount |-> CountOf(occ, key, {"positive"}),
    negativeCount |-> CountOf(occ, key, {"negative"}),
    neutralCount |-> CountOf(occ, key, {"neutral"}) ]

elementData(occ, key) ==
  [ category |-> ElementCategory(key),
    movieIds |-> { occ[i].movieId : i \in { j \in 1..Len(occ) : occ[j].key = key } },
    positiveCount |-> CountOf(occ, key, {"positive"}),
    negativeCount |-> CountOf(occ, key, {"negative"}),
    neutralCount |-> CountOf(occ, key, {"neutral", "mixed"}) ]

\* rejectedPatternKeys taken from the patterns still waiting for an answer.
rejectedPatternKeys_Unanswered(existingPatterns) ==
  { p.element : p \in { q \in existingPatterns : q.validated = "null" } }

rejectedPatternKeys(existingPatterns) ==
  { p.element : p \in { q \in existingPatterns : q.validated = "false" } }

confirmedPatternKeys(existingPatterns) ==
  { p.element : p \in { q \in existingPatterns : q.validated = "true" } }

\* The filter asking for 2 movies and 30% of the movies.
Qualifies_Both(data, totalMovies) ==
  ~(Cardinality(data.movieIds) < 2 \/ 10 * Cardinality(data.movieIds) < 3 * totalMovies)

\* The filter asking for 2 movies or 25% of the movies.
Qualifies_Quarter(data, totalMovies) ==
  ~(Cardinality(data.movieIds) < 2 /\ 4 * Cardinality(data.movieIds) < totalMovies)

\* "Need to appear in at least 2 movies or 30% of movies"
Qualifies(data, totalMovies) ==
  ~(Cardinality(data.movieIds) < 2 /\ 10 * Cardinality(data.movieIds) < 3 * totalMovies)

DominantSentiment(data) ==
  IF data.positiveCount > data.negativeCount /\ data.positiveCount > data.neutralCount
  THEN "positive"
  ELSE IF data.negativeCount > data.positiveCount /\ data.negativeCount > data.neutralCount
  THEN "negative"
  ELSE "neutral"

\* The confidence with the share of the movies the element does not touch
\* in the place of its coverage.
ElementConfidence_Untouched(data, totalMovies, totalResponses) ==
  LET totalMentions == data.positiveCount + data.negativeCount + data.neutralCount
  IN Min(95 * Unit,
         (Max(0, totalMovies - Cardinality(data.movieIds)) * 50 * Unit) \div totalMovies
         + (totalMentions * 30 * Unit) \div totalResponses
         + 20 * Unit)

\* min(0.95, movieCoverage * 0.5 + (totalMentions / responses.length) * 0.3 + 0.2)
ElementConfidence(data, totalMovies, totalResponses) ==
  LET totalMentions == data.positiveCount + data.negativeCount + data.neutralCount
  IN Min(95 * Unit,
         (Cardinality(data.movieIds) * 50 * Unit) \div totalMovies
         + (totalMentions * 30 * Unit) \div totalResponses
         + 20 * Unit)

\* min(0.9, 0.5 + pref.strength * 0.1)
PreferenceConfidence(strength) == Min(90 * Unit, 50 * Unit + strength * 10 * Unit)

\* The boost without its cap of 0.98.
Boost_Uncapped(confidence, key, confirmed) ==
  IF key \in confirmed THEN confidence + 15 * Unit ELSE confidence

\* "Boost confidence for confirmed patterns"
Boost(confidence, key, confirmed) ==
  IF key \in confirmed THEN Min(98 * Unit, confidence + 15 * Unit) ELSE confidence

ElementPatterns(responses, totalMovies, existingPatterns) ==
  LET occ == Occurrences(responses)
      keys == SelectSeq(KeysInOrder(occ, {}),
                LAMBDA k : /\ k \notin rejectedPatternKeys(existingPatterns)
                           /\ Qualifies(elementData(occ, k), totalMovies))
  IN [ i \in 1..Len(keys) |->
         LET data == elementData(occ, keys[i])
         IN [ type |-> data.category,
              element |-> keys[i],
              confidence |-> Boost(ElementConfidence(data, totalMovies, Len(responses)),
                                   keys[i], confirmedPatternKeys(existingPatterns)),
              sentiment |-> DominantSentiment(data),
              movieIds |-> data.movieIds ] ]

PreferencePatterns(responses, existingPatterns) ==
  LET prefs == SelectSeq(detectPreferencePatterns(responses),
                 LAMBDA pref : pref.key \notin rejectedPatternKeys(existingPatterns))
  IN [ i \in 1..Len(prefs) |->
         [ type |-> "preference",
           element |-> prefs[i].key,
           confidence |-> Boost(PreferenceConfidence(prefs[i].strength),
                                prefs[i].key, confirmedPatternKeys(existingPatterns)),
           sentiment |-> "positive",
           movieIds |-> prefs[i].movieIds ] ]

\* patterns.sort((a, b) => b.confidence - a.confidence): a stable sort.
RECURSIVE InsertByConfidence(_, _)
InsertByConfidence(p, sorted) ==
  IF sorted = << >> THEN << p >>
  ELSE IF Head(sorted).confidence >= p.confidence
  THEN << Head(sorted) >> \o InsertByConfidence(p, Tail(sorted))
  ELSE << p >> \o sorted

RECURSIVE SortByConfidence(_)
SortByConfidence(ps) ==
  IF ps = << >> THEN << >>
  ELSE InsertByConfidence(ps[Len(ps)], SortByConfidence(SubSeq(ps, 1, Len(ps) - 1)))

\* detectPatterns with the truncation before the sort.
detectPatterns_TruncateFirst(responses, totalMovies, existingPatterns) ==
  IF totalMovies < 2 THEN << >>
  ELSE LET patterns == ElementPatterns(responses, totalMovies, existingPatterns)
                       \o PreferencePatterns(responses, existingPatterns)
       IN SortByConfidence(SubSeq(patterns, 1, Min(MaxPatterns, Len(patterns))))

\* detectPatterns with a guard that lets a store of one movie through.
detectPatterns_OneMovie(responses, totalMovies, existingPatterns) ==
  IF totalMovies < 1 THEN << >>
  ELSE LET patterns == SortByConfidence(
                         ElementPatterns(responses, totalMovies, existingPatterns)
                         \o PreferencePatterns(responses, existingPatterns))
       IN SubSeq(patterns, 1, Min(MaxPatterns, Len(patterns)))

\* The computation of detectPatterns on the three values it read.
detectPatterns(responses, totalMovies, existingPatterns) ==
  IF totalMovies < 2 THEN << >>
  ELSE LET patterns == SortByConfidence(
                         ElementPatterns(responses, totalMovies, existingPatterns)
                         \o PreferencePatterns(responses, existingPatterns))
       IN SubSeq(patterns, 1, Min(MaxPatterns, Len(patterns)))

\* ------------------------------------------------ pattern descriptions
\* generatePatternDescription: the number of templates of each sentiment.
TemplateCount(sentiment) == IF sentiment = "positive" THEN 4 ELSE 3

\* The outcomes of the Math.random() calls of one run: a template index for
\* every pattern the element loop builds.
TemplateDraws(elements) ==
  [ 1..Len(elements) -> 1..4 ]

\* templates[Math.floor(Math.random() * templates.length)], the random
\* number being (draw - 1) / 4.
pickTemplate(sentiment, draw) == ((draw - 1) * TemplateCount(sentiment)) \div 4 + 1

\* The sort of detectPatterns with ties broken by the description.
SortDescribed_ThenText(ps) ==
  LET keyed == [ i \in 1..Len(ps) |->
                   [ ps[i] EXCEPT !.confidence = @ * 8 + ps[i].description ] ]
      sorted == SortByConfidence(keyed)
  IN [ i \in 1..Len(sorted) |-> [ sorted[i] EXCEPT !.confidence = @ \div 8 ] ]

\* patterns.sort((a, b) => b.confidence - a.confidence) on the patterns
\* with their descriptions.
SortDescribed(ps) == SortByConfidence(ps)

\* detectPatterns with the description of every pattern: the template the
\* draw picks for an element pattern (0: the fixed description of a
\* preference).
detectPatternsDescribed(responses, totalMovies, existingPatterns, draws) ==
  IF totalMovies < 2 THEN << >>
  ELSE LET elements == ElementPatterns(responses, totalMovies, existingPatterns)
           prefs == PreferencePatterns(responses, existingPatterns)
           described ==
             [ i \in 1..Len(elements) |->
                 [ type |-> elements[i].type, element |-> elements[i].element,
                   description |-> pickTemplate(elements[i].sentiment, draws[i]),
                   confidence |-> elements[i].confidence,
                   sentiment |-> elements[i].sentiment,
                   movieIds |-> elements[i].movieIds ] ]
             \o [ i \in 1..Len(prefs) |->
                 [ type |-> prefs[i].type, element |-> prefs[i].element,
                   description |-> 0,
                   confidence |-> prefs[i].confidence,
                   sentiment |-> prefs[i].sentiment,
                   movieIds |-> prefs[i].movieIds ] ]
           patterns == SortDescribed(described)
       IN SubSeq(patterns, 1, Min(MaxPatterns, Len(patterns)))

\* A result without its description texts.
WithoutDescriptions(ps) ==
  [ i \in 1..Len(ps) |->
      [ type |-> ps[i].type, element |-> ps[i].element,
        confidence |-> ps[i].confidence, sentiment |-> ps[i].sentiment,
        movieIds |-> ps[i].movieIds ] ]

\* ------------------------------------------------------ export, import
\* exportAllData: the five tables as arrays, under a date and a version.
\* toArray lists the rows of a table by primary key and bulkAdd files each
\* row under the key it carries, so the arrays of the tables kept as sets
\* here (movies, patterns, settings) are kept as sets.
exportAllData(date, tables) ==
  [ exportDate |-> date, version |-> 1,
    movies |-> tables.movies, sessions |-> tables.sessions,
    responses |-> tables.responses, patterns |-> tables.patterns,
    settings |-> tables.settings ]

\* The key a table's generator gives next, once rows with these keys were
\* added with their keys.
KeyAfter(nextId, ids) ==
  IF ids = {} THEN nextId
  ELSE Max(nextId, (CHOOSE m \in ids : \A other \in ids : other <= m) + 1)

\* importData with every pattern stored as a newly detected one.
importData_Unvalidated(data, keys) ==
  [ movies |-> data.movies, sessions |-> data.sessions,
    responses |-> data.responses,
    patterns |-> { [ q EXCEPT !.validated = "null" ] : q \in data.patterns },
    settings |-> data.settings,
    nextMovieId |-> KeyAfter(keys.nextMovieId, data.movies),
    nextResponseId |-> KeyAfter(keys.nextResponseId,
                         { data.responses[i].id : i \in 1..Len(data.responses) }),
    nextPatternId |-> KeyAfter(keys.nextPatternId, { q.id : q \in data.patterns }) ]

\* importData: every table cleared, then the rows of the file added with
\* bulkAdd under their own keys; clear leaves the key generators alone.
importData(data, keys) ==
  [ movies |-> data.movies, sessions |-> data.sessions,
    responses |-> data.responses, patterns |-> data.patterns,
    settings |-> data.settings,
    nextMovieId |-> KeyAfter(keys.nextMovieId, data.movies),
    nextResponseId |-> KeyAfter(keys.nextResponseId,
                         { data.responses[i].id : i \in 1..Len(data.responses) }),
    nextPatternId |-> KeyAfter(keys.nextPatternId, { q.id : q \in data.patterns }) ]

\* ------------------------------------------------------------------ state
VARIABLES
  \* db.js: the Dexie tables and their auto-increment keys
  movies, nextMovieId, sessions, responses, nextResponseId, patterns, nextPatternId,
  \* app.js: the fields of the sessionFlow component
  step, selectedMovieId, sessionId, questions, currentQuestionIndex, response,
  followUpCount, feedbackMessage, showConfidence,
  \* the position of the saveAndNext / completeSession call in flight, the
  \* locals of detectPatterns and completeSession, and the movie whose
  \* deleteMovie call is between its two store writes (0: none)
  pc, dpResponses, dpMovies, dpExisting, newPatterns, saveIndex, deleting,
  \* history: follow-ups asked on the current question and the texts
  \* submitResponse accepted on it; the store states seen since
  \* detectPatterns began to read; the last validation the user gave per
  \* element; counters of detection runs and validations
  asked, accepted, seen, feedback, dpFeedback, runs, validations,
  \* db.js: the settings table; the object exportAllData returned last;
  \* history: the tables as they were at that export, and the imports done
  settings, exported, atExport, imports,
  \* app.js: the further saveAndNext calls made while one awaits
  \* saveResponse, each awaiting the saveResponse it made
  reentered

storeVars == << movies, nextMovieId, sessions, responses, nextResponseId,
                patterns, nextPatternId >>
flowVars == << step, selectedMovieId, sessionId, questions, currentQuestionIndex,
               response, followUpCount, feedbackMessage, showConfidence >>
callVars == << pc, dpResponses, dpMovies, dpExisting, newPatterns, saveIndex >>
histVars == << asked, accepted, feedback, dpFeedback, runs, validations >>
backupVars == << settings, exported, atExport, imports >>
vars == << storeVars, flowVars, callVars, deleting, seen, histVars, backupVars,
          reentered >>

\* What detectPatterns can observe of one state of the store.
Snapshot(rs, ms, ps) == [ responses |-> rs, movieCount |-> Cardinality(ms), patterns |-> ps ]

Reading == { "dp_movies", "dp_patterns" }

\* The store states seen while detectPatterns is between its reads.
Track ==
  seen' = IF pc' \in Reading
          THEN (IF pc \in Reading THEN seen ELSE {})
               \cup { Snapshot(responses', movies', patterns') }
          ELSE IF pc' = "dp_compute"
          THEN (IF pc = "dp_compute" THEN seen
                ELSE seen \cup { Snapshot(responses', movies', patterns') })
          ELSE {}

\* savePattern: the row written for pattern p under key id.
savePattern(p, id) ==
  [ id |-> id, type |-> p.type, confidence |-> p.confidence,
    movieIds |-> p.movieIds, validated |-> "null",
    element |-> p.element, sentiment |-> p.sentiment ]

\* validatePattern: db.patterns.update(id, { validated: isValid }).
validatePattern(ps, id, isValid) ==
  { IF p.id = id THEN [p EXCEPT !.validated = isValid] ELSE p : p \in ps }

NoCall ==
  /\ dpResponses = << >> /\ dpMovies = 0 /\ dpExisting = {}
  /\ newPatterns = << >> /\ saveIndex = 0
  /\ reentered = 0

\* The locals of a call end with the call.
EndCall ==
  /\ dpResponses' = << >> /\ dpMovies' = 0 /\ dpExisting' = {}
  /\ newPatterns' = << >> /\ saveIndex' = 0

EmptyStore ==
  /\ movies = {} /\ nextMovieId = 1
  /\ sessions = << >>
  /\ responses = << >> /\ nextResponseId = 1
  /\ patterns = {} /\ nextPatternId = 1

\* No setting is stored and nothing was exported yet (exportDate 0).
NoData ==
  [ exportDate |-> 0, version |-> 1, movies |-> {}, sessions |-> << >>,
    responses |-> << >>, patterns |-> {}, settings |-> {} ]

NoTables ==
  [ movies |-> {}, sessions |-> << >>, responses |-> << >>, patterns |-> {},
    settings |-> {} ]

NoBackup ==
  /\ settings = {} /\ exported = NoData /\ atExport = NoTables /\ imports = 0

\* sessionFlow(): the initial fields of the component.
FreshFlow ==
  /\ step = "select-type" /\ selectedMovieId = 0 /\ sessionId = 0
  /\ questions = 0 /\ currentQuestionIndex = 0
  /\ response = NoText /\ followUpCount = 0
  /\ feedbackMessage = << "null", 0 >>
  /\ showConfidence = FALSE

Init ==
  /\ EmptyStore /\ FreshFlow /\ NoCall
  /\ pc = "idle" /\ deleting = 0
  /\ asked = 0 /\ accepted = {} /\ seen = {} /\ feedback = {} /\ dpFeedback = {}
  /\ runs = 0 /\ validations = 0
  /\ NoBackup

\* ----------------------------------------------------- store operations
\* addMovieForm.save -> saveMovie
SaveMovie ==
  /\ nextMovieId <= MaxMovies
  /\ movies' = movies \cup {nextMovieId}
  /\ nextMovieId' = nextMovieId + 1
  /\ UNCHANGED << sessions, responses, nextResponseId, patterns, nextPatternId >>
  /\ UNCHANGED << flowVars, callVars, deleting, histVars >>
  /\ Track
  /\ UNCHANGED backupVars
  /\ UNCHANGED reentered

\* deleteMovieHandler -> deleteMovie, first write: the movie's responses.
DeleteMovieResponses(id) ==
  /\ deleting = 0
  /\ id \in movies
  /\ responses' = SelectSeq(responses, LAMBDA r : r.movieId # id)
  /\ deleting' = id
  /\ UNCHANGED << movies, nextMovieId, sessions, nextResponseId, patterns, nextPatternId >>
  /\ UNCHANGED << flowVars, callVars, histVars >>
  /\ Track
  /\ UNCHANGED backupVars
  /\ UNCHANGED reentered

\* deleteMovie, second write: the movie itself.
DeleteMovieRow ==
  /\ deleting # 0
  /\ movies' = movies \ {deleting}
  /\ deleting' = 0
  /\ UNCHANGED << nextMovieId, sessions, responses, nextResponseId, patterns, nextPatternId >>
  /\ UNCHANGED << flowVars, callVars, histVars >>
  /\ Track
  /\ UNCHANGED backupVars
  /\ UNCHANGED reentered

\* patternList.validate -> validatePattern
Validate(id, isValid) ==
  /\ \E p \in patterns : p.id = id /\ p.validated # isValid
  /\ patterns' = validatePattern(patterns, id, isValid)
  /\ UNCHANGED << movies, nextMovieId, sessions, responses, nextResponseId, nextPatternId >>
  /\ UNCHANGED << flowVars, callVars, deleting, histVars >>
  /\ Track
  /\ UNCHANGED backupVars
  /\ UNCHANGED reentered

\* ------------------------------------------------------- the session flow
\* selectType, selectMovie and startSession: createSession, then the fields
\* startSession sets.  It leaves response, followUpCount, feedbackMessage
\* and showConfidence as they are.
SelectMovie(movieId) ==
  /\ pc = "idle"
  /\ step = "select-type"
  /\ movieId \in movies
  /\ Len(sessions) < MaxSessions
  /\ sessions' = Append(sessions, [status |-> "active", movieId |-> movieId])
  /\ selectedMovieId' = movieId
  /\ sessionId' = Len(sessions) + 1
  /\ questions' = QuestionsPerSession
  /\ currentQuestionIndex' = 0
  /\ step' = "questioning"
  /\ asked' = 0 /\ accepted' = {}
  /\ UNCHANGED << movies, nextMovieId, responses, nextResponseId, patterns, nextPatternId >>
  /\ UNCHANGED << response, followUpCount, feedbackMessage, showConfidence >>
  /\ UNCHANGED << callVars, deleting, feedback, dpFeedback, runs, validations >>
  /\ Track
  /\ UNCHANGED backupVars
  /\ UNCHANGED reentered

\* The response field is bound to the text box.
TypeResponse(text) ==
  /\ pc = "idle"
  /\ step = "questioning"
  /\ response # text
  /\ response' = text
  /\ UNCHANGED << step, selectedMovieId, sessionId, questions, currentQuestionIndex,
                  followUpCount, feedbackMessage, showConfidence >>
  /\ UNCHANGED << storeVars, callVars, deleting, histVars >>
  /\ Track
  /\ UNCHANGED backupVars
  /\ UNCHANGED reentered

\* submitResponse, when the response is answered with a follow-up.
SubmitFollowUp ==
  /\ pc = "idle"
  /\ step = "questioning"
  /\ response # NoText
  /\ ~shouldAcceptResponse(analyzeResponse(response), followUpCount)
  /\ feedbackMessage' = getFollowUp(analyzeResponse(response), followUpCount)
  /\ followUpCount' = followUpCount + 1
  /\ asked' = asked + 1
  /\ UNCHANGED accepted
  /\ UNCHANGED << step, selectedMovieId, sessionId, questions, currentQuestionIndex,
                  response, showConfidence >>
  /\ UNCHANGED << storeVars, callVars, deleting, feedback, dpFeedback, runs, validations >>
  /\ Track
  /\ UNCHANGED backupVars
  /\ UNCHANGED reentered

\* submitResponse, when the response is accepted.
SubmitAccept ==
  /\ pc = "idle"
  /\ step = "questioning"
  /\ response # NoText
  /\ shouldAcceptResponse(analyzeResponse(response), followUpCount)
  /\ IF analyzeResponse(response).specificityScore >= 60
     THEN feedbackMessage' = << "encouragement", 0 >>
     ELSE IF followUpCount > 0
     THEN feedbackMessage' = << "acceptance", 0 >>
     ELSE UNCHANGED feedbackMessage
  /\ showConfidence' = TRUE
  /\ UNCHANGED << step, selectedMovieId, sessionId, questions, currentQuestionIndex,
                  response, followUpCount >>
  /\ accepted' = accepted \cup {response}
  /\ UNCHANGED << storeVars, callVars, deleting, asked, feedback, dpFeedback, runs, validations >>
  /\ Track
  /\ UNCHANGED backupVars
  /\ UNCHANGED reentered

\* saveAndNext up to its await: saveResponse with the text of the field.
\* this.currentQuestion.key throws when no question is current.
SaveAndNext ==
  /\ pc = "idle"
  /\ step = "questioning"
  /\ showConfidence
  /\ currentQuestionIndex < questions
  /\ responses' = Append(responses,
       [ id |-> nextResponseId, sessionId |-> sessionId,
         movieId |-> selectedMovieId, questionKey |-> currentQuestionIndex,
         responseText |-> response ])
  /\ nextResponseId' = nextResponseId + 1
  /\ pc' = "san_saved"
  /\ UNCHANGED << movies, nextMovieId, sessions, patterns, nextPatternId >>
  /\ UNCHANGED << dpResponses, dpMovies, dpExisting, newPatterns, saveIndex >>
  /\ UNCHANGED << flowVars, deleting, histVars >>
  /\ Track
  /\ UNCHANGED backupVars
  /\ UNCHANGED reentered

\* saveAndNext after saveResponse: reset for the next question, and for the
\* last question the first store write of completeSession.
SaveAndNextResume ==
  /\ pc = "san_saved"
  /\ response' = NoText
  /\ followUpCount' = 0
  /\ feedbackMessage' = << "null", 0 >>
  /\ showConfidence' = FALSE
  /\ currentQuestionIndex' = currentQuestionIndex + 1
  /\ asked' = 0 /\ accepted' = {}
  /\ IF currentQuestionIndex + 1 >= questions
     THEN /\ sessions' = [ i \in 1..Len(sessions) |->
                            IF i = sessionId
                            THEN [ sessions[i] EXCEPT !.status = "completed" ]
                            ELSE sessions[i] ]
          /\ pc' = "cs_completed"
     ELSE /\ pc' = "idle"
          /\ UNCHANGED sessions
  /\ UNCHANGED << movies, nextMovieId, responses, nextResponseId, patterns, nextPatternId >>
  /\ UNCHANGED << step, selectedMovieId, sessionId, questions >>
  /\ UNCHANGED << dpResponses, dpMovies, dpExisting, newPatterns, saveIndex >>
  /\ UNCHANGED << deleting, feedback, dpFeedback, runs, validations >>
  /\ Track
  /\ UNCHANGED backupVars
  /\ UNCHANGED reentered

\* completeSession: updateMovie(selectedMovieId, { lastAnalyzed }).
UpdateMovie ==
  /\ pc = "cs_completed"
  /\ pc' = "cs_updated"
  /\ UNCHANGED << dpResponses, dpMovies, dpExisting, newPatterns, saveIndex >>
  /\ UNCHANGED << storeVars, flowVars, deleting, histVars >>
  /\ Track
  /\ UNCHANGED backupVars
  /\ UNCHANGED reentered

\* detectPatterns: const responses = await getAllResponses()
ReadResponses ==
  /\ pc = "cs_updated"
  /\ dpResponses' = responses
  /\ pc' = "dp_movies"
  /\ UNCHANGED << dpMovies, dpExisting, newPatterns, saveIndex >>
  /\ UNCHANGED << storeVars, flowVars, deleting, histVars >>
  /\ Track
  /\ UNCHANGED backupVars
  /\ UNCHANGED reentered

\* detectPatterns: const movies = await getMovies()
ReadMovies ==
  /\ pc = "dp_movies"
  /\ dpMovies' = Cardinality(movies)
  /\ pc' = "dp_patterns"
  /\ UNCHANGED << dpResponses, dpExisting, newPatterns, saveIndex >>
  /\ UNCHANGED << storeVars, flowVars, deleting, histVars >>
  /\ Track
  /\ UNCHANGED backupVars
  /\ UNCHANGED reentered

\* detectPatterns: const existingPatterns = await getPatterns()
ReadPatterns ==
  /\ pc = "dp_patterns"
  /\ dpExisting' = patterns
  /\ pc' = "dp_compute"
  /\ UNCHANGED << dpResponses, dpMovies, newPatterns, saveIndex >>
  /\ UNCHANGED << storeVars, flowVars, deleting, histVars >>
  /\ Track
  /\ UNCHANGED backupVars
  /\ UNCHANGED reentered

\* The rest of detectPatterns, and completeSession up to clearPatterns.
ComputeAndClear ==
  /\ pc = "dp_compute"
  /\ newPatterns' = detectPatterns(dpResponses, dpMovies, dpExisting)
  /\ patterns' = {}
  /\ saveIndex' = 1
  /\ pc' = "cs_save"
  /\ UNCHANGED << dpResponses, dpMovies, dpExisting >>
  /\ UNCHANGED << movies, nextMovieId, sessions, responses, nextResponseId, nextPatternId >>
  /\ UNCHANGED << flowVars, deleting, histVars >>
  /\ Track
  /\ UNCHANGED backupVars
  /\ UNCHANGED reentered

\* completeSession: await savePattern(p), for one p of newPatterns.
SaveNextPattern ==
  /\ pc = "cs_save"
  /\ saveIndex <= Len(newPatterns)
  /\ patterns' = patterns \cup { savePattern(newPatterns[saveIndex], nextPatternId) }
  /\ nextPatternId' = nextPatternId + 1
  /\ saveIndex' = saveIndex + 1
  /\ UNCHANGED << pc, dpResponses, dpMovies, dpExisting, newPatterns >>
  /\ UNCHANGED << movies, nextMovieId, sessions, responses, nextResponseId >>
  /\ UNCHANGED << flowVars, deleting, histVars >>
  /\ Track
  /\ UNCHANGED backupVars
  /\ UNCHANGED reentered

\* completeSession after the last savePattern: step = 'complete', refreshAll.
FinishSession ==
  /\ pc = "cs_save"
  /\ saveIndex > Len(newPatterns)
  /\ step' = "complete"
  /\ pc' = "idle"
  /\ EndCall
  /\ UNCHANGED << selectedMovieId, sessionId, questions, currentQuestionIndex, response,
                  followUpCount, feedbackMessage, showConfidence >>
  /\ UNCHANGED << storeVars, deleting, histVars >>
  /\ Track
  /\ UNCHANGED backupVars
  /\ UNCHANGED reentered

\* startNewSession, from the completion screen.
StartNewSession ==
  /\ pc = "idle"
  /\ step = "complete"
  /\ step' = "select-type"
  /\ selectedMovieId' = 0
  /\ sessionId' = 0
  /\ questions' = 0
  /\ currentQuestionIndex' = 0
  /\ UNCHANGED << response, followUpCount, feedbackMessage, showConfidence >>
  /\ UNCHANGED << storeVars, callVars, deleting, histVars >>
  /\ Track
  /\ UNCHANGED backupVars
  /\ UNCHANGED reentered

\* startNewSession while a question is open.  The method has no condition
\* of its own, and the fields it leaves alone are the ones saveAndNext
\* resets: response, followUpCount, feedbackMessage, showConfidence.
StartOver ==
  /\ pc = "idle"
  /\ step = "questioning"
  /\ step' = "select-type"
  /\ selectedMovieId' = 0
  /\ sessionId' = 0
  /\ questions' = 0
  /\ currentQuestionIndex' = 0
  /\ UNCHANGED << response, followUpCount, feedbackMessage, showConfidence >>
  /\ UNCHANGED << storeVars, callVars, deleting, histVars >>
  /\ Track
  /\ UNCHANGED backupVars
  /\ UNCHANGED reentered

\* The page is loaded again: a new sessionFlow component, the calls in
\* flight are gone, the store stays.
Reload ==
  /\ step = "questioning"
  /\ step' = "select-type" /\ selectedMovieId' = 0 /\ sessionId' = 0
  /\ questions' = 0 /\ currentQuestionIndex' = 0
  /\ response' = NoText /\ followUpCount' = 0
  /\ feedbackMessage' = << "null", 0 >>
  /\ showConfidence' = FALSE
  /\ pc' = "idle" /\ deleting' = 0
  /\ asked' = 0 /\ accepted' = {}
  /\ EndCall
  /\ UNCHANGED << storeVars, feedback, dpFeedback, runs, validations >>
  /\ Track
  /\ UNCHANGED backupVars
  /\ UNCHANGED reentered

Next ==
  \/ SaveMovie
  \/ \E id \in 1..MaxMovies : DeleteMovieResponses(id)
  \/ DeleteMovieRow
  \/ \E id \in 1..(nextPatternId - 1), isValid \in {"true", "false"} : Validate(id, isValid)
  \/ \E movieId \in 1..MaxMovies : SelectMovie(movieId)
  \/ \E text \in AppTexts : TypeResponse(text)
  \/ SubmitFollowUp
  \/ SubmitAccept
  \/ SaveAndNext
  \/ SaveAndNextResume
  \/ UpdateMovie
  \/ ReadResponses
  \/ ReadMovies
  \/ ReadPatterns
  \/ ComputeAndClear
  \/ SaveNextPattern
  \/ FinishSession
  \/ StartNewSession
  \/ StartOver
  \/ Reload

Spec == Init /\ [][Next]_vars

\* ------------------------------------------ the session flow on its own
\* The store holds its movies already; the user only works through sessions
\* on the first movie, each to its end, typing any text of the corpus.
InitFlow ==
  /\ movies = 1..MaxMovies /\ nextMovieId = MaxMovies + 1
  /\ sessions = << >>
  /\ responses = << >> /\ nextResponseId = 1
  /\ patterns = {} /\ nextPatternId = 1
  /\ FreshFlow /\ NoCall
  /\ pc = "idle" /\ deleting = 0
  /\ asked = 0 /\ accepted = {} /\ seen = {} /\ feedback = {} /\ dpFeedback = {}
  /\ runs = 0 /\ validations = 0
  /\ NoBackup

NextFlow ==
  \/ SelectMovie(1)
  \/ \E text \in Corpus : TypeResponse(text)
  \/ SubmitFollowUp
  \/ SubmitAccept
  \/ SaveAndNext
  \/ SaveAndNextResume
  \/ UpdateMovie
  \/ ReadResponses
  \/ ReadMovies
  \/ ReadPatterns
  \/ ComputeAndClear
  \/ SaveNextPattern
  \/ FinishSession
  \/ StartNewSession

SpecFlow == InitFlow /\ [][NextFlow]_vars

\* ------------------------------------- detection over a fixed store
\* The store holds the movies 1..k and any responses; a response may belong
\* to a movie that is not stored.  detectPatterns uses the movie ids of the
\* responses only to tell movies apart, so the movies of the responses are
\* numbered in the order of their first response.  Detection then runs again
\* and again over these responses and movies, as the end of completeSession
\* runs it (detectPatterns, clearPatterns, savePattern for each), with the
\* user validating stored patterns between the runs.
FirstOccurrenceOrder(f, n) ==
  \A i \in 1..n : \A m \in 1..(f[i][1] - 1) : \E j \in 1..(i - 1) : f[j][1] = m

InitDetect ==
  /\ \E k \in 0..MaxStoreMovies : movies = 1..k /\ nextMovieId = k + 1
  /\ \E n \in 0..MaxCorpus :
       \E f \in [ 1..n -> (1..MaxCorpus) \X DetectTexts ] :
         /\ FirstOccurrenceOrder(f, n)
         /\ responses = [ i \in 1..n |->
              [ id |-> i, sessionId |-> 0, movieId |-> f[i][1],
                responseText |-> f[i][2] ] ]
         /\ nextResponseId = n + 1
  /\ sessions = << >>
  /\ patterns = {} /\ nextPatternId = 1
  /\ FreshFlow /\ NoCall
  /\ pc = "idle" /\ deleting = 0
  /\ asked = 0 /\ accepted = {} /\ seen = {} /\ feedback = {} /\ dpFeedback = {}
  /\ runs = 0 /\ validations = 0
  /\ NoBackup

\* detectPatterns, clearPatterns and the savePattern loop, uninterrupted.
DetectAndReplace ==
  /\ runs < MaxRuns
  /\ dpResponses' = responses
  /\ dpMovies' = Cardinality(movies)
  /\ dpExisting' = patterns
  /\ newPatterns' = detectPatterns(responses, Cardinality(movies), patterns)
  /\ patterns' = { savePattern(newPatterns'[i], nextPatternId + i - 1) :
                     i \in 1..Len(newPatterns') }
  /\ nextPatternId' = nextPatternId + Len(newPatterns')
  /\ saveIndex' = Len(newPatterns') + 1
  /\ dpFeedback' = feedback
  /\ runs' = runs + 1
  /\ UNCHANGED << movies, nextMovieId, sessions, responses, nextResponseId >>
  /\ UNCHANGED << flowVars, pc, deleting, seen, asked, accepted, feedback, validations >>
  /\ UNCHANGED backupVars
  /\ UNCHANGED reentered

\* patternList.validate between two runs; feedback keeps the user's last
\* answer for the element.
ValidateStored(id, isValid) ==
  /\ validations < MaxValidations
  /\ \E p \in patterns :
       /\ p.id = id /\ p.validated # isValid
       /\ feedback' = { f \in feedback : f.element # p.element }
                      \cup { [ element |-> p.element, validated |-> isValid ] }
  /\ patterns' = validatePattern(patterns, id, isValid)
  /\ validations' = validations + 1
  /\ UNCHANGED << movies, nextMovieId, sessions, responses, nextResponseId, nextPatternId >>
  /\ UNCHANGED << flowVars, callVars, deleting, seen, asked, accepted, dpFeedback, runs >>
  /\ UNCHANGED backupVars
  /\ UNCHANGED reentered

NextDetect ==
  \/ DetectAndReplace
  \/ \E id \in 1..(nextPatternId - 1), isValid \in {"true", "false"} :
       ValidateStored(id, isValid)

SpecDetect == InitDetect /\ [][NextDetect]_vars

\* ------------------------------------------------ properties of detection
\* The element keys a run returned, and the distinct movies of the responses
\* it read.
ReturnedKeys == { newPatterns[i].element : i \in 1..Len(newPatterns) }

ResponseMovies == { dpResponses[i].movieId : i \in 1..Len(dpResponses) }

\* What the run would have returned had there been no stored pattern.
Unvalidated == detectPatterns(dpResponses, dpMovies, {})

UnvalidatedKeys == { Unvalidated[i].element : i \in 1..Len(Unvalidated) }

\* C5: a single call of detectPatterns returns no pattern, element or
\* preference, whose element key is the key of a prior pattern with
\* validated = false.
C5_RejectedKeyNotReturned ==
  \A p \in dpExisting : p.validated = "false" => p.element \notin ReturnedKeys

\* C5 happens: a run read a rejected element pattern and a rejected
\* preference pattern, both of which the responses would otherwise yield.
C5_Witness ==
  /\ runs >= 1
  /\ \E p, q \in dpExisting :
       /\ p.validated = "false" /\ q.validated = "false"
       /\ p.type = "preference" /\ q.type # "preference"
       /\ {p.element, q.element} \subseteq UnvalidatedKeys

\* C6, as stated: detectPatterns returns the empty list whenever the
\* responses concern fewer than 2 distinct movies, whatever the number of
\* movies in the movie store.
C6_AsStated ==
  (runs >= 1 /\ Cardinality(ResponseMovies) < 2) => newPatterns = << >>

\* C6, amended: detectPatterns returns the empty list whenever the movie
\* store holds fewer than 2 movies, whatever the number of distinct movies
\* among the responses.
C6_FewerThanTwoStoredMovies ==
  (runs >= 1 /\ dpMovies < 2) => newPatterns = << >>

\* C6 happens: a run over a store of fewer than 2 movies whose responses
\* concern 2 movies or more and mention an element on each.
C6_Witness ==
  /\ runs >= 1
  /\ dpMovies < 2
  /\ Cardinality(ResponseMovies) >= 2
  /\ \E k \in Range(ELEMENT_KEYS) :
       Cardinality(elementData(Occurrences(dpResponses), k).movieIds) >= 2
  /\ newPatterns = << >>

\* C8: every pattern detectPatterns returns has a confidence in [0, 0.98].
C8_ConfidenceInRange ==
  \A i \in 1..Len(newPatterns) :
    newPatterns[i].confidence >= 0 /\ newPatterns[i].confidence <= 98 * Unit

\* C8 happens: the responses concern more movies than the store holds, and
\* the run returned a confirmed pattern at 0.98 next to a preference
\* pattern.
C8_Witness ==
  /\ runs >= 1
  /\ Cardinality(ResponseMovies) > dpMovies
  /\ \E i, j \in 1..Len(newPatterns) :
       /\ newPatterns[i].confidence = 98 * Unit
       /\ newPatterns[i].element \in confirmedPatternKeys(dpExisting)
       /\ newPatterns[j].type = "preference"

\* The confidence of the pattern with this element key in a list of
\* patterns that holds one.
ConfidenceIn(ps, key) ==
  ps[CHOOSE i \in 1..Len(ps) : ps[i].element = key].confidence

\* C1: once the user has marked a pattern validated = false, no later run
\* of detection over the unchanged responses returns its element key, on
\* the first run after the rejection and on every run after it.
C1_RejectedNeverReturns ==
  \A f \in dpFeedback : f.validated = "false" => f.element \notin ReturnedKeys

\* C3: an element the user confirmed carries the boost of 0.15 (capped at
\* 0.98) on every run of detection that follows the confirmation.
C3_ConfirmedAlwaysBoosted ==
  \A f \in dpFeedback :
    (f.validated = "true" /\ f.element \in ReturnedKeys) =>
      ConfidenceIn(newPatterns, f.element)
        = Min(98 * Unit, ConfidenceIn(Unvalidated, f.element) + 15 * Unit)

\* C9: a run of detection that reads a confirmed stored pattern returns its
\* element with a confidence strictly greater than the stored one, greater
\* by at most 0.15 and not above 0.98.
C9_ConfirmationRaisesConfidence ==
  \A p \in dpExisting :
    (runs >= 1 /\ p.validated = "true") =>
      /\ p.element \in ReturnedKeys
      /\ ConfidenceIn(newPatterns, p.element) > p.confidence
      /\ ConfidenceIn(newPatterns, p.element) <= p.confidence + 15 * Unit
      /\ ConfidenceIn(newPatterns, p.element) <= 98 * Unit

\* ------------------------------------------------ properties of the store
\* The movies that exist in the store and have a completed session.
AnalyzedMovies ==
  { m \in movies :
      \E i \in 1..Len(sessions) :
        sessions[i].movieId = m /\ sessions[i].status = "completed" }

\* C2: when completeSession has replaced the stored patterns by the result
\* of detectPatterns, the store still records validated = true or false for
\* every element that carried it before the run.
C2_ValidatedSurvivesRedetection ==
  (pc = "cs_save" /\ saveIndex > Len(newPatterns)) =>
    \A p \in dpExisting :
      p.validated # "null" =>
        \E q \in patterns : q.element = p.element /\ q.validated = p.validated

\* C7: the movieIds of every stored pattern are movies that exist in the
\* store and have at least one completed session.
C7_PatternMoviesAnalyzed ==
  \A p \in patterns : p.movieIds \subseteq AnalyzedMovies

\* C10: the responses, the movie count and the prior patterns detectPatterns
\* computes over all belong to one state the store was in while it read.
C10_ConsistentSnapshot ==
  pc = "dp_compute" =>
    \E s \in seen :
      s.responses = dpResponses /\ s.movieCount = dpMovies /\ s.patterns = dpExisting

\* ------------------------------------------- properties of the session flow
\* C4: on one question at most 3 submissions are answered with a follow-up;
\* once followUpCount has reached 3, a submission of any text is accepted.
C4_AtMostThreeFollowUps ==
  /\ asked <= 3
  /\ (followUpCount >= 3 =>
        \A text \in Corpus : shouldAcceptResponse(analyzeResponse(text), followUpCount))

\* C4 happens: a text that is declined on a first submission was accepted
\* after 3 follow-ups on the question.
C4_Witness ==
  /\ asked = 3
  /\ followUpCount = 3
  /\ showConfidence
  /\ ~shouldAcceptResponse(analyzeResponse(response), 0)
  /\ ~shouldAcceptResponse(analyzeResponse(response), 2)

\* C11: a question that has had no follow-up yet is presented with
\* followUpCount = 0, the first question of a session and every question
\* reached through saveAndNext alike.
C11_QuestionStartsAtZero ==
  (step = "questioning" /\ asked = 0) => followUpCount = 0

\* C12: the text saveAndNext stores is one submitResponse accepted on the
\* question it is stored for.
C12_StoredTextWasAccepted ==
  [][ nextResponseId' > nextResponseId =>
        responses'[Len(responses')].responseText \in accepted ]_vars

\* -------------------------------------------- the classifier on its own
\* One question is open, with any text of a family in the response field
\* and followUpCount at any attempt count; the user submits, and submits
\* again after a follow-up.
OpenQuestion(texts, attempts) ==
  /\ movies = {1} /\ nextMovieId = 2
  /\ sessions = << [status |-> "active", movieId |-> 1] >>
  /\ responses = << >> /\ nextResponseId = 1
  /\ patterns = {} /\ nextPatternId = 1
  /\ step = "questioning" /\ selectedMovieId = 1 /\ sessionId = 1
  /\ questions = QuestionsPerSession /\ currentQuestionIndex = 0
  /\ response \in texts /\ followUpCount \in attempts
  /\ feedbackMessage = << "null", 0 >>
  /\ showConfidence = FALSE
  /\ NoCall
  /\ pc = "idle" /\ deleting = 0
  /\ asked = 0 /\ accepted = {} /\ seen = {} /\ feedback = {} /\ dpFeedback = {}
  /\ runs = 0 /\ validations = 0
  /\ NoBackup

InitClassify == OpenQuestion(ClassifyTexts, 0..MaxAttempts)

\* Texts of 15, 51 and 101 words: no length bonus, the first, both.
InitScore == OpenQuestion(CueTexts({15, 51, 101}), {0})

NextSubmit ==
  \/ SubmitFollowUp
  \/ SubmitAccept

SpecClassify == InitClassify /\ [][NextSubmit]_vars

SpecScore == InitScore /\ [][NextSubmit]_vars

\* ------------------------------------------- properties of the classifier
\* What the statement of shouldAcceptResponse says of the text in the
\* response field at an attempt count.
StatedAcceptance(attemptCount) ==
  \/ ~analyzeResponse(response).isVague
  \/ attemptCount >= 3
  \/ (analyzeResponse(response).specificityScore >= 40 /\ attemptCount >= 1)

\* C13: shouldAcceptResponse returns true exactly when the analysis is not
\* vague, or attemptCount >= 3, or specificityScore >= 0.4 with
\* attemptCount >= 1; submitResponse accepts and gives follow-ups
\* accordingly.
C13_AcceptExactlyWhenStated ==
  /\ shouldAcceptResponse(analyzeResponse(response), followUpCount)
       <=> StatedAcceptance(followUpCount)
  /\ showConfidence => StatedAcceptance(followUpCount)
  /\ asked >= 1 => ~StatedAcceptance(followUpCount - 1)

\* C13 happens: a vague text with a score below 0.4 was accepted at an
\* attempt count of 3 or more.
C13_Witness ==
  /\ showConfidence
  /\ followUpCount >= 3
  /\ analyzeResponse(response).isVague
  /\ analyzeResponse(response).specificityScore < 40

\* C18: a text shorter than 50 characters, the empty text included, is
\* analysed as vague, of type too_short, with score 0.2, whatever vagueness
\* pattern it matches.
C18_ShortIsTooShort ==
  response.len < 50 =>
    /\ analyzeResponse(response).isVague
    /\ analyzeResponse(response).vaguenessType = "too_short"
    /\ analyzeResponse(response).specificityScore = 20

\* C18 happens: a text of fewer than 50 characters that matches a vagueness
\* pattern was submitted and answered with a too_short follow-up.
C18_Witness ==
  /\ response.len < 50
  /\ response.vagueHits # {}
  /\ asked >= 1
  /\ feedbackMessage[1] = "too_short"

\* C19: the specificityScore analyzeResponse returns lies in [0, 1].
C19_ScoreInUnitRange ==
  /\ analyzeResponse(response).specificityScore >= 0
  /\ analyzeResponse(response).specificityScore <= 100

\* C19 happens: a text of more than 100 words with all 12 bonus cues and
\* no penalty cue was submitted and accepted with a score of exactly 1.
C19_Witness ==
  /\ showConfidence
  /\ response.words > 100
  /\ response.bonus = 1..12
  /\ response.penalty = {}
  /\ analyzeResponse(response).specificityScore = 100
  /\ feedbackMessage[1] = "encouragement"

\* ------------------------------- detection over more than 12 elements
\* The first stored response mentions 14 elements; the responses after it,
\* on the same movie or on a second one, mention two of them, or another
\* element with a preference signal.
Stored(movieId, text) == [ movieId |-> movieId, responseText |-> text ]

TruncateCorpus ==
  { << >>,
    << Stored(1, TxtHeist) >>,
    << Stored(2, TxtHeist) >>,
    << Stored(2, TxtMeditative), Stored(2, TxtMeditative) >>,
    << Stored(2, TxtHeist), Stored(2, TxtMeditative) >>,
    << Stored(1, TxtMeditative), Stored(2, TxtMeditative) >> }

InitTruncate ==
  /\ \E k \in 2..MaxStoreMovies : movies = 1..k /\ nextMovieId = k + 1
  /\ \E rest \in TruncateCorpus :
       LET all == << Stored(1, TxtEnsemble) >> \o rest
       IN /\ responses = [ i \in 1..Len(all) |->
                 [ id |-> i, sessionId |-> 0, movieId |-> all[i].movieId,
                   responseText |-> all[i].responseText ] ]
          /\ nextResponseId = Len(all) + 1
  /\ sessions = << >>
  /\ patterns = {} /\ nextPatternId = 1
  /\ FreshFlow /\ NoCall
  /\ pc = "idle" /\ deleting = 0
  /\ asked = 0 /\ accepted = {} /\ seen = {} /\ feedback = {} /\ dpFeedback = {}
  /\ runs = 0 /\ validations = 0
  /\ NoBackup

\* The user answers for patterns of the first run only; the runs after it
\* read them as prior patterns.
ValidateFirstRun(id, isValid) ==
  /\ runs = 1
  /\ ValidateStored(id, isValid)

NextTruncate ==
  \/ DetectAndReplace
  \/ \E id \in 1..(nextPatternId - 1), isValid \in {"true", "false"} :
       ValidateFirstRun(id, isValid)

SpecTruncate == InitTruncate /\ [][NextTruncate]_vars

\* ------------------------------------------ properties of the truncation
\* The patterns a run built before it sorted and truncated them, and the
\* ones among them it did not return.
Qualifying ==
  IF dpMovies < 2 THEN << >>
  ELSE ElementPatterns(dpResponses, dpMovies, dpExisting)
       \o PreferencePatterns(dpResponses, dpExisting)

LeftOut == { q \in Range(Qualifying) : q.element \notin ReturnedKeys }

\* C14: detectPatterns returns at most 12 patterns, in non-increasing order
\* of confidence, and no pattern it leaves out has a higher confidence than
\* one it returns.
C14_TopTwelveByConfidence ==
  /\ Len(newPatterns) <= 12
  /\ \A i \in 1..(Len(newPatterns) - 1) :
       newPatterns[i].confidence >= newPatterns[i + 1].confidence
  /\ \A q \in LeftOut : \A i \in 1..Len(newPatterns) :
       q.confidence <= newPatterns[i].confidence

\* C14 happens: a run built more than 12 patterns, returned 12 of them with
\* a confirmed pattern and a preference pattern among them, not all of one
\* confidence, and left out the rest.
C14_Witness ==
  /\ runs >= 1
  /\ Len(Qualifying) > 12
  /\ Len(newPatterns) = 12
  /\ LeftOut # {}
  /\ newPatterns[1].confidence > newPatterns[12].confidence
  /\ \E i, j \in 1..12 :
       /\ newPatterns[i].type = "preference"
       /\ newPatterns[j].element \in confirmedPatternKeys(dpExisting)

\* -------------------------- detection over a store that holds patterns
\* Rows of the pattern table left by earlier sessions: deleteMovie removes
\* movies and responses and leaves the patterns, so they are found with any
\* movies and responses.
PriorPattern(id, type, element, validated) ==
  [ id |-> id, type |-> type, confidence |-> 75 * Unit, movieIds |-> {1},
    validated |-> validated, element |-> element, sentiment |-> "positive" ]

PriorPatterns ==
  { {} }
  \cup { { PriorPattern(1, "writing", "dialogue", v),
           PriorPattern(2, "preference", "slowPacing", w) } :
           v \in {"null", "true", "false"}, w \in {"null", "true"} }

InitGuard ==
  /\ \E k \in 0..MaxStoreMovies : movies = 1..k /\ nextMovieId = k + 1
  /\ \E n \in 0..MaxCorpus :
       \E f \in [ 1..n -> (1..MaxCorpus) \X DetectTexts ] :
         /\ FirstOccurrenceOrder(f, n)
         /\ responses = [ i \in 1..n |->
              [ id |-> i, sessionId |-> 0, movieId |-> f[i][1],
                responseText |-> f[i][2] ] ]
         /\ nextResponseId = n + 1
  /\ sessions = << >>
  /\ patterns \in PriorPatterns /\ nextPatternId = 3
  /\ FreshFlow /\ NoCall
  /\ pc = "idle" /\ deleting = 0
  /\ asked = 0 /\ accepted = {} /\ seen = {} /\ feedback = {} /\ dpFeedback = {}
  /\ runs = 0 /\ validations = 0
  /\ NoBackup

NextGuard == DetectAndReplace

SpecGuard == InitGuard /\ [][NextGuard]_vars

\* C15: detectPatterns returns the empty list when the store holds fewer
\* than 2 movies, whatever the responses and prior patterns, and when it
\* holds 2 or more movies and no response.
C15_EmptyOnInsufficientData ==
  (runs >= 1 /\ (dpMovies < 2 \/ dpResponses = << >>)) => newPatterns = << >>

\* C15 happens: a run over one movie, with responses that mention an
\* element and prior patterns of which one is confirmed, returned nothing.
C15_Witness ==
  /\ runs >= 1
  /\ dpMovies = 1
  /\ Occurrences(dpResponses) # << >>
  /\ confirmedPatternKeys(dpExisting) # {}
  /\ newPatterns = << >>

\* ------------------------------------------- coverage against confidence
CoverageTexts == << TxtDiner, TxtDialogue, TxtPalette >>

\* Stores of 1 to MaxCoverageMovies movies whose responses are about
\* stored movies; when there are several, the last movie has no response
\* yet. The responses are listed movie by movie: mention counts and movie
\* sets do not depend on the order of the responses.
InitCoverage ==
  /\ \E k \in 1..MaxCoverageMovies, n \in 0..MaxCoverageCorpus :
       \E f \in [ 1..n -> (1..Max(1, k - 1)) \X (1..Len(CoverageTexts)) ] :
         /\ movies = 1..k /\ nextMovieId = k + 1
         /\ \A i \in 1..(n - 1) :
              \/ f[i][1] < f[i + 1][1]
              \/ f[i][1] = f[i + 1][1] /\ f[i][2] <= f[i + 1][2]
         /\ responses = [ i \in 1..n |->
              [ id |-> i, sessionId |-> 0, movieId |-> f[i][1],
                responseText |-> CoverageTexts[f[i][2]] ] ]
         /\ nextResponseId = n + 1
  /\ sessions = << >>
  /\ patterns = {} /\ nextPatternId = 1
  /\ FreshFlow /\ NoCall
  /\ pc = "idle" /\ deleting = 0
  /\ asked = 0 /\ accepted = {} /\ seen = {} /\ feedback = {} /\ dpFeedback = {}
  /\ runs = 0 /\ validations = 0
  /\ NoBackup

NextCoverage ==
  \/ DetectAndReplace
  \/ \E id \in 1..(nextPatternId - 1), isValid \in {"true", "false"} :
       ValidateFirstRun(id, isValid)

SpecCoverage == InitCoverage /\ [][NextCoverage]_vars

\* The element patterns of the last run.
ElementsReturned ==
  { newPatterns[i] : i \in { j \in 1..Len(newPatterns) :
                               newPatterns[j].type # "preference" } }

\* totalMentions of an element in the responses the last run read.
TotalMentions(key) == CountOf(Occurrences(dpResponses), key,
                              {"positive", "negative", "neutral", "mixed"})

\* C16 as stated: of two element patterns of one run with the same number
\* of mentions, the one touching strictly more movies has a confidence at
\* least as high as the other's.
C16_AsStated ==
  \A p, q \in ElementsReturned :
    (/\ TotalMentions(p.element) = TotalMentions(q.element)
     /\ Cardinality(p.movieIds) > Cardinality(q.movieIds))
    => p.confidence >= q.confidence

\* C16, amended: the same, unless the user confirmed the pattern that
\* touches fewer movies and not the other one.
C16_CoverageOrdersConfidence ==
  \A p, q \in ElementsReturned :
    (/\ TotalMentions(p.element) = TotalMentions(q.element)
     /\ Cardinality(p.movieIds) > Cardinality(q.movieIds)
     /\ (q.element \in confirmedPatternKeys(dpExisting)
          => p.element \in confirmedPatternKeys(dpExisting)))
    => p.confidence >= q.confidence

\* C16 happens: two confirmed element patterns with the same number of
\* mentions, one touching more movies and strictly more confident.
C16_Witness ==
  \E p, q \in ElementsReturned :
    /\ TotalMentions(p.element) = TotalMentions(q.element)
    /\ Cardinality(p.movieIds) > Cardinality(q.movieIds)
    /\ { p.element, q.element } \subseteq confirmedPatternKeys(dpExisting)
    /\ p.confidence > q.confidence

\* ------------------------------------------ descriptions are cosmetic
\* The runs of detectPatterns on what the last run read, one for every
\* outcome of the random draws.
DescribedRuns ==
  { detectPatternsDescribed(dpResponses, dpMovies, dpExisting, d) :
      d \in TemplateDraws(ElementPatterns(dpResponses, Max(dpMovies, 1), dpExisting)) }

\* C17: two runs of detectPatterns on the same responses, movies and prior
\* patterns that differ in the random template choices return the same
\* elements in the same order with the same type, confidence, sentiment
\* and movieIds.
C17_TemplatesAreCosmetic ==
  runs >= 1 =>
    \A a, b \in DescribedRuns : WithoutDescriptions(a) = WithoutDescriptions(b)

\* C17 happens: two runs over a store with confirmed prior patterns return
\* two element patterns of equal confidence and differ in a description.
C17_Witness ==
  /\ runs >= 1
  /\ confirmedPatternKeys(dpExisting) # {}
  /\ \E a, b \in DescribedRuns :
       /\ a # b
       /\ \E i, j \in 1..Len(a) :
            /\ i < j
            /\ a[i].confidence = a[j].confidence
            /\ a[i].description # 0 /\ a[j].description # 0

\* ------------------------------------------------------ backup, restore
\* The five tables of the store.
StoreTables ==
  [ movies |-> movies, sessions |-> sessions, responses |-> responses,
    patterns |-> patterns, settings |-> settings ]

\* settingsPanel.exportData -> exportAllData
ExportAllData ==
  /\ exported.exportDate < MaxBackups
  /\ exported' = exportAllData(exported.exportDate + 1, StoreTables)
  /\ atExport' = StoreTables
  /\ UNCHANGED << storeVars, flowVars, callVars, deleting, histVars, settings, imports >>
  /\ Track
  /\ UNCHANGED reentered

\* settingsPanel.handleImport -> importData, on the file of the last export
\* (an object of exportAllData has its movies and sessions arrays, which is
\* all handleImport asks of the file).
ImportData ==
  /\ imports < MaxBackups
  /\ exported.exportDate > 0
  /\ LET store == importData(exported,
                    [ nextMovieId |-> nextMovieId, nextResponseId |-> nextResponseId,
                      nextPatternId |-> nextPatternId ])
     IN /\ movies' = store.movies /\ nextMovieId' = store.nextMovieId
        /\ sessions' = store.sessions
        /\ responses' = store.responses /\ nextResponseId' = store.nextResponseId
        /\ patterns' = store.patterns /\ nextPatternId' = store.nextPatternId
        /\ settings' = store.settings
  /\ imports' = imports + 1
  /\ UNCHANGED << flowVars, callVars, deleting, histVars, exported, atExport >>
  /\ Track
  /\ UNCHANGED reentered

\* A store with a completed session, responses and patterns, some of them
\* answered by the user.
InitBackup ==
  /\ movies = 1..MaxStoreMovies /\ nextMovieId = MaxStoreMovies + 1
  /\ \E all \in TruncateCorpus :
       /\ responses = [ i \in 1..Len(all) |->
            [ id |-> i, sessionId |-> 1, movieId |-> all[i].movieId,
              responseText |-> all[i].responseText ] ]
       /\ nextResponseId = Len(all) + 1
  /\ sessions = << [status |-> "completed", movieId |-> 1] >>
  /\ patterns \in PriorPatterns /\ nextPatternId = 3
  /\ FreshFlow /\ NoCall
  /\ pc = "idle" /\ deleting = 0
  /\ asked = 0 /\ accepted = {} /\ seen = {} /\ feedback = {} /\ dpFeedback = {}
  /\ runs = 0 /\ validations = 0
  /\ NoBackup

\* A backup waits for its restoration.
Pending == exported.exportDate > imports

\* The user takes a backup, changes the store (deletes the first movie,
\* answers for patterns, has patterns detected again) and restores the
\* backup.
NextBackup ==
  \/ ~Pending /\ ExportAllData
  \/ Pending /\ ImportData
  \/ Pending /\ DeleteMovieResponses(1)
  \/ Pending /\ DeleteMovieRow
  \/ Pending /\ DetectAndReplace
  \/ Pending /\ \E id \in 1..(nextPatternId - 1), isValid \in {"true", "false"} :
                  ValidateStored(id, isValid)

SpecBackup == InitBackup /\ [][NextBackup]_vars

C21_RefusalAsksFollowUp ==
  [][ asked' > asked =>
        /\ ~shouldAcceptResponse(analyzeResponse(response), followUpCount)
        /\ feedbackMessage' =
             << analyzeResponse(response).vaguenessType,
                IF followUpCount < analyzeResponse(response).followUps - 1
                THEN followUpCount
                ELSE analyzeResponse(response).followUps - 1 >>
        /\ followUpCount' = followUpCount + 1
        /\ UNCHANGED << currentQuestionIndex, responses, sessions, showConfidence >>
    ]_vars

\* C21 happens: the same text was refused three times in a row and the
\* third follow-up of its vagueness pattern is shown.
C21_Witness ==
  /\ asked = 3
  /\ followUpCount = 3
  /\ response.len >= MIN_RESPONSE_LENGTH
  /\ feedbackMessage = << "acting", 2 >>
  /\ ~showConfidence

\* C22: for a text of 50 characters or more, the first vagueness pattern
\* it matches, in registry order, gives the category and the follow-up
\* list, with score 0.3 whatever the cues of the text; a text matching no
\* vagueness pattern gets its specificity score, is vague
\* (low_specificity) exactly when the score is below 0.5, and has no
\* follow-up when it is not vague.
C22_RulesInPriorityOrder ==
  response.len >= 50 =>
    LET analysis == analyzeResponse(response)
        hits == response.vagueHits
    IN IF hits # {}
       THEN /\ analysis.isVague
            /\ analysis.specificityScore = 30
            /\ \E i \in hits :
                 /\ \A j \in hits : i <= j
                 /\ analysis.vaguenessType = VAGUE_PATTERNS[i].category
                 /\ analysis.followUps = VAGUE_PATTERNS[i].followUps
       ELSE /\ analysis.specificityScore = calculateSpecificityScore(response)
            /\ analysis.isVague <=> analysis.specificityScore < 50
            /\ analysis.isVague =>
                 analysis.vaguenessType = "low_specificity" /\ analysis.followUps = 3
            /\ ~analysis.isVague =>
                 analysis.vaguenessType = "null" /\ analysis.followUps = 0

\* C22 happens: a long text matching the first and the fifth vagueness
\* pattern, whose cues alone would score 0.5 or more, was submitted and
\* answered with a follow-up of the first pattern.
C22_Witness ==
  /\ response.len >= 50
  /\ response.vagueHits = {1, 5}
  /\ calculateSpecificityScore(response) >= 50
  /\ asked >= 1
  /\ feedbackMessage[1] = VAGUE_PATTERNS[1].category

\* ------------------------------------------------- the filter on elements
\* The element keys the responses of the last run mention, the movies of
\* the responses that mention a key, and the keys the user rejected.
MentionedKeys ==
  UNION { { e.key : e \in dpResponses[i].responseText.elems } :
            i \in 1..Len(dpResponses) }

TouchedMovies(key) ==
  { dpResponses[i].movieId :
      i \in { j \in 1..Len(dpResponses) :
                \E e \in dpResponses[j].responseText.elems : e.key = key } }

RejectedKeys == { q.element : q \in { r \in dpExisting : r.validated = "false" } }

\* Not rejected, and in 2 movies or more or in 30% of the movies or more.
PassesFilter(key) ==
  /\ key \notin RejectedKeys
  /\ \/ Cardinality(TouchedMovies(key)) >= 2
     \/ 10 * Cardinality(TouchedMovies(key)) >= 3 * dpMovies

ReturnedElementKeys == { q.element : q \in ElementsReturned }

\* C23 as stated: an element pattern is returned for a key exactly when the
\* key is not rejected and touches 2 movies or 30% of the movies.
C23_AsStated ==
  runs >= 1 =>
    \A key \in MentionedKeys : key \in ReturnedElementKeys <=> PassesFilter(key)

\* C23, amended: with 2 or more stored movies, every returned element
\* pattern passes the filter, and an element that passes it is returned
\* unless the result is cut at 12 patterns; with fewer than 2 stored movies
\* nothing is returned.
C23_FilterDecidesElements ==
  runs >= 1 =>
    /\ ReturnedElementKeys \subseteq { key \in MentionedKeys : PassesFilter(key) }
    /\ dpMovies < 2 => ReturnedElementKeys = {}
    /\ (dpMovies >= 2 /\ Len(newPatterns) < MaxPatterns) =>
         { key \in MentionedKeys : PassesFilter(key) } \subseteq ReturnedElementKeys

\* C23 happens: of the elements of one run over 4 movies, one touching 2
\* movies is returned and one touching a single movie is left out.
C23_Witness ==
  /\ runs >= 1
  /\ dpMovies = 4
  /\ \E key \in ReturnedElementKeys : Cardinality(TouchedMovies(key)) = 2
  /\ \E key \in MentionedKeys \ ReturnedElementKeys :
       /\ key \notin RejectedKeys
       /\ Cardinality(TouchedMovies(key)) = 1

\* --------------------------------------------- the sentiment of a pattern
\* Mentions of the dialogue that are positive, negative, neutral (with the
\* color, neutral too) and mixed, and a text with a signal of slowPacing.
SentimentTexts == << TxtDialogue, TxtStiff, TxtDiner, TxtDinner, TxtUnhurried >>

\* A store of two movies and up to MaxCoverageCorpus responses with the
\* given texts, listed movie by movie.
ListedStore(texts) ==
  /\ movies = 1..2 /\ nextMovieId = 3
  /\ \E n \in 0..MaxCoverageCorpus :
       \E f \in [ 1..n -> (1..2) \X (1..Len(texts)) ] :
         /\ \A i \in 1..(n - 1) :
              \/ f[i][1] < f[i + 1][1]
              \/ f[i][1] = f[i + 1][1] /\ f[i][2] <= f[i + 1][2]
         /\ responses = [ i \in 1..n |->
              [ id |-> i, sessionId |-> 0, movieId |-> f[i][1],
                responseText |-> texts[f[i][2]] ] ]
         /\ nextResponseId = n + 1
  /\ sessions = << >>
  /\ patterns = {} /\ nextPatternId = 1
  /\ FreshFlow /\ NoCall
  /\ pc = "idle" /\ deleting = 0
  /\ asked = 0 /\ accepted = {} /\ seen = {} /\ feedback = {} /\ dpFeedback = {}
  /\ runs = 0 /\ validations = 0
  /\ NoBackup

InitSentiment == ListedStore(SentimentTexts)

NextSentiment ==
  \/ DetectAndReplace
  \/ \E id \in 1..(nextPatternId - 1), isValid \in {"true", "false"} :
       ValidateFirstRun(id, isValid)

SpecSentiment == InitSentiment /\ [][NextSentiment]_vars

\* positiveCount, negativeCount and neutralCount of a key in the responses
\* the last run read.
Tally(key, sentiment) ==
  CountOf(Occurrences(dpResponses), key,
          IF sentiment = "neutral" THEN {"neutral", "mixed"} ELSE {sentiment})

\* C24: the sentiment of an element pattern is the one of positive,
\* negative and neutral that has more than half of the occurrence counts
\* of its element, and neutral when none has.
C24_StrictMajority ==
  \A q \in ElementsReturned :
    LET total == Tally(q.element, "positive") + Tally(q.element, "negative")
                 + Tally(q.element, "neutral")
    IN q.sentiment =
         IF 2 * Tally(q.element, "positive") > total THEN "positive"
         ELSE IF 2 * Tally(q.element, "negative") > total THEN "negative"
         ELSE "neutral"

\* ------------------------------------------------- preference patterns
\* Texts firing one signal matcher of slowPacing, four of them, two of its
\* anti-signal matchers, and one of each.
PreferenceTexts == << TxtMeditative, TxtUnhurried, TxtDragged, TxtWaiting >>

InitPreference == ListedStore(PreferenceTexts)

NextPreference ==
  \/ DetectAndReplace
  \/ \E id \in 1..(nextPatternId - 1), isValid \in {"true", "false"} :
       ValidateFirstRun(id, isValid)

SpecPreference == InitPreference /\ [][NextPreference]_vars

\* The responses of the last run that fire a signal matcher of the key,
\* and those that fire one of its anti-signal matchers.
SignalResponses(key) ==
  { i \in 1..Len(dpResponses) :
      key \in dpResponses[i].responseText.signals
      /\ dpResponses[i].responseText.signalHits >= 1 }

AntiSignalResponses(key) ==
  { i \in 1..Len(dpResponses) :
      key \in dpResponses[i].responseText.antiSignals
      /\ dpResponses[i].responseText.antiSignalHits >= 1 }

MentionsWith(key, pos, neg) ==
  { i \in 1..Len(dpResponses) :
      \E e \in dpResponses[i].responseText.elems :
        /\ e.key = key
        /\ (e.pos > 0) = pos
        /\ (e.neg > 0) = neg }

\* C29: every returned pattern has sentiment positive, negative or neutral;
\* a mixed occurrence of an element counts as a neutral one, so that a
\* pattern is positive (negative) only if the positive (negative)
\* occurrences outnumber the neutral and mixed ones together; every
\* preference pattern is positive.
C29_MixedCountsAsNeutral ==
  \A q \in Range(newPatterns) :
    /\ q.sentiment \in {"positive", "negative", "neutral"}
    /\ q.type = "preference" => q.sentiment = "positive"
    /\ q.type # "preference" =>
         LET positive == Cardinality(MentionsWith(q.element, TRUE, FALSE))
             negative == Cardinality(MentionsWith(q.element, FALSE, TRUE))
             others == Cardinality(MentionsWith(q.element, FALSE, FALSE))
                       + Cardinality(MentionsWith(q.element, TRUE, TRUE))
         IN /\ q.sentiment = "positive" => positive > others
            /\ q.sentiment = "negative" => negative > others
            /\ (positive > negative /\ positive > others) => q.sentiment = "positive"
            /\ (negative > positive /\ negative > others) => q.sentiment = "negative"

\* C29 happens: a run returns the dialogue as neutral from one positive and
\* one mixed occurrence, and a preference pattern as positive.
C29_Witness ==
  /\ \E q \in Range(newPatterns) :
       /\ q.element = "dialogue" /\ q.sentiment = "neutral"
       /\ Cardinality(MentionsWith("dialogue", TRUE, FALSE)) = 1
       /\ Cardinality(MentionsWith("dialogue", TRUE, TRUE)) = 1
       /\ MentionsWith("dialogue", FALSE, FALSE) = {}
  /\ \E q \in Range(newPatterns) :
       q.type = "preference" /\ q.sentiment = "positive"

\* ------------------------------------------- saveAndNext called again
\* sessionFlow keeps no flag for a saveAndNext in flight (app.js 91-108): while
\* one call awaits saveResponse, the fields it resets after the await still
\* hold the accepted text and showConfidence, and saveAndNext can be called
\* again.  The further call reads the same fields and the same
\* currentQuestion, and requests its own saveResponse.
\* The calls modelled are those that leave only the last resumption at the
\* end of the questions, so that completeSession runs once.
SaveAndNextAgain ==
  /\ pc = "san_saved"
  /\ reentered < MaxReentries
  /\ step = "questioning"
  /\ showConfidence
  /\ currentQuestionIndex + reentered + 2 <= questions
  /\ responses' = Append(responses,
       [ id |-> nextResponseId, sessionId |-> sessionId,
         movieId |-> selectedMovieId, questionKey |-> currentQuestionIndex,
         responseText |-> response ])
  /\ nextResponseId' = nextResponseId + 1
  /\ reentered' = reentered + 1
  /\ UNCHANGED << movies, nextMovieId, sessions, patterns, nextPatternId >>
  /\ UNCHANGED << pc, dpResponses, dpMovies, dpExisting, newPatterns, saveIndex >>
  /\ UNCHANGED << flowVars, deleting, histVars >>
  /\ Track
  /\ UNCHANGED backupVars

\* A further call after its saveResponse, once the calls before it have
\* resumed: the same reset and the same increment of currentQuestionIndex,
\* and completeSession when the index reaches the end.
SaveAndNextAgainResume ==
  /\ pc = "idle"
  /\ reentered > 0
  /\ reentered' = reentered - 1
  /\ response' = NoText
  /\ followUpCount' = 0
  /\ feedbackMessage' = << "null", 0 >>
  /\ showConfidence' = FALSE
  /\ currentQuestionIndex' = currentQuestionIndex + 1
  /\ asked' = 0 /\ accepted' = {}
  /\ IF currentQuestionIndex + 1 >= questions
     THEN /\ sessions' = [ i \in 1..Len(sessions) |->
                            IF i = sessionId
                            THEN [ sessions[i] EXCEPT !.status = "completed" ]
                            ELSE sessions[i] ]
          /\ pc' = "cs_completed"
     ELSE /\ pc' = "idle"
          /\ UNCHANGED sessions
  /\ UNCHANGED << movies, nextMovieId, responses, nextResponseId, patterns, nextPatternId >>
  /\ UNCHANGED << step, selectedMovieId, sessionId, questions >>
  /\ UNCHANGED << dpResponses, dpMovies, dpExisting, newPatterns, saveIndex >>
  /\ UNCHANGED << deleting, feedback, dpFeedback, runs, validations >>
  /\ Track
  /\ UNCHANGED backupVars

\* A session of QuestionsPerSession + 1 questions has just started on a
\* stored movie.  The user answers its questions; a pending resumption of a
\* further call runs before the user acts again.
InitReentry ==
  /\ movies = 1..MaxMovies /\ nextMovieId = MaxMovies + 1
  /\ sessions = << [status |-> "active", movieId |-> 1] >>
  /\ responses = << >> /\ nextResponseId = 1
  /\ patterns = {} /\ nextPatternId = 1
  /\ step = "questioning" /\ selectedMovieId = 1 /\ sessionId = 1
  /\ questions = QuestionsPerSession + 1 /\ currentQuestionIndex = 0
  /\ response = NoText /\ followUpCount = 0
  /\ feedbackMessage = << "null", 0 >>
  /\ showConfidence = FALSE
  /\ NoCall
  /\ pc = "idle" /\ deleting = 0
  /\ asked = 0 /\ accepted = {} /\ seen = {} /\ feedback = {} /\ dpFeedback = {}
  /\ runs = 0 /\ validations = 0
  /\ NoBackup

NextReentry ==
  \/ reentered = 0 /\ \E text \in Corpus : TypeResponse(text)
  \/ reentered = 0 /\ SubmitFollowUp
  \/ reentered = 0 /\ SubmitAccept
  \/ reentered = 0 /\ SaveAndNext
  \/ SaveAndNextAgain
  \/ SaveAndNextResume
  \/ SaveAndNextAgainResume
  \/ UpdateMovie
  \/ ReadResponses
  \/ ReadMovies
  \/ ReadPatterns
  \/ ComputeAndClear
  \/ SaveNextPattern
  \/ FinishSession

SpecReentry == InitReentry /\ [][NextReentry]_vars

\* The questions the stored responses of a session answer, in the order the
\* responses were persisted.
PersistedQuestions(session) ==
  LET mine == SelectSeq(responses, LAMBDA r : r.sessionId = session)
  IN [ k \in 1..Len(mine) |-> mine[k].questionKey ]

\* C26: a session is completed, and detection runs for it, only with exactly
\* one response persisted for each of its questions, in question order, also
\* when saveAndNext was called again before an earlier call had finished its
\* store write.
C26_OneResponsePerQuestion ==
  (sessionId >= 1 /\ sessions[sessionId].status = "completed") =>
    PersistedQuestions(sessionId) = [ k \in 1..questions |-> k - 1 ]

\* ------------------------------------------- responses of deleted movies
\* C27: the movieId of every stored response is a movie of the movie store:
\* deleteMovie removes a movie with all its responses, and nothing stores a
\* response for a deleted movie afterwards.
C27_ResponsesOfStoredMovies ==
  \A i \in 1..Len(responses) : responses[i].movieId \in movies

\* ------------------------------------------- the movies behind a pattern
\* A mention of the dialogue, and a text that mentions the pacing and fires
\* signals of slowPacing.
EvidenceTexts == << TxtDialogue, TxtUnhurried >>

\* Stores of 2 to MaxCoverageMovies movies whose responses are about stored
\* movies, the last movie without a response yet, listed movie by movie.
InitEvidence ==
  /\ \E k \in 2..MaxCoverageMovies, n \in 0..MaxCoverageCorpus :
       \E f \in [ 1..n -> (1..(k - 1)) \X (1..Len(EvidenceTexts)) ] :
         /\ movies = 1..k /\ nextMovieId = k + 1
         /\ \A i \in 1..(n - 1) :
              \/ f[i][1] < f[i + 1][1]
              \/ f[i][1] = f[i + 1][1] /\ f[i][2] <= f[i + 1][2]
         /\ responses = [ i \in 1..n |->
              [ id |-> i, sessionId |-> 0, movieId |-> f[i][1],
                responseText |-> EvidenceTexts[f[i][2]] ] ]
         /\ nextResponseId = n + 1
  /\ sessions = << >>
  /\ patterns = {} /\ nextPatternId = 1
  /\ FreshFlow /\ NoCall
  /\ pc = "idle" /\ deleting = 0
  /\ asked = 0 /\ accepted = {} /\ seen = {} /\ feedback = {} /\ dpFeedback = {}
  /\ runs = 0 /\ validations = 0
  /\ NoBackup

NextEvidence ==
  \/ DetectAndReplace
  \/ \E id \in 1..(nextPatternId - 1), isValid \in {"true", "false"} :
       ValidateFirstRun(id, isValid)

SpecEvidence == InitEvidence /\ [][NextEvidence]_vars

\* C28: a returned element pattern has evidence from a single movie only
\* when the store holds at most 3 movies; with 4 movies or more every
\* returned element pattern has at least 2 distinct movieIds.  (That a
\* preference pattern is under no such bound is what C28_Witness reaches.)
C28_SingleMovieEvidence ==
  \A q \in Range(newPatterns) :
    q.type # "preference" =>
      /\ Cardinality(q.movieIds) = 1 => dpMovies <= 3
      /\ dpMovies >= 4 => Cardinality(q.movieIds) >= 2

\* C28 happens: over a store of 4 movies a run returns an element pattern
\* with two movies and a preference pattern with one, and leaves out the
\* pacing, which only that one movie's responses mention.
C28_Witness ==
  /\ runs >= 1
  /\ dpMovies >= 4
  /\ \E q \in Range(newPatterns) :
       q.type # "preference" /\ Cardinality(q.movieIds) = 2
  /\ \E q \in Range(newPatterns) :
       q.type = "preference" /\ Cardinality(q.movieIds) = 1
  /\ Cardinality(TouchedMovies("pacing")) = 1
  /\ "pacing" \notin ReturnedElementKeys

\* ------------------------------------- no early acceptance below 0.4
\* The categories of the vagueness patterns.
PatternCategories == { VAGUE_PATTERNS[i].category : i \in 1..Len(VAGUE_PATTERNS) }

\* C30: an analysis of type too_short (score 0.2) or of a vagueness-pattern
\* category (score 0.3) is accepted exactly when the attempt count is 3 or
\* more; a vague analysis accepted before that is of type low_specificity
\* with a score in [0.4, 0.5); and the follow-up shown was read at an index
\* below 3.
C30_NoEarlyAcceptanceBelowThreshold ==
  LET analysis == analyzeResponse(response)
  IN /\ analysis.vaguenessType \in {"too_short"} \cup PatternCategories =>
          /\ analysis.specificityScore
               = (IF analysis.vaguenessType = "too_short" THEN 20 ELSE 30)
          /\ shouldAcceptResponse(analysis, followUpCount) <=> followUpCount >= 3
          /\ (showConfidence /\ response # NoText) => followUpCount >= 3
     /\ (/\ analysis.isVague
         /\ followUpCount < 3
         /\ shouldAcceptResponse(analysis, followUpCount)) =>
          /\ analysis.vaguenessType = "low_specificity"
          /\ analysis.specificityScore >= 40
          /\ analysis.specificityScore < 50
          /\ followUpCount >= 1
     /\ feedbackMessage[1] \in {"too_short", "low_specificity"} \cup PatternCategories =>
          feedbackMessage[2] < 3

\* C30 happens: a text matching a vagueness pattern, whose cues alone score
\* 0.4 or more, was refused at the attempt counts 1 and 2 and accepted at 3.
C30_Witness ==
  /\ showConfidence
  /\ asked = 2
  /\ followUpCount = 3
  /\ response.len >= MIN_RESPONSE_LENGTH
  /\ response.vagueHits # {}
  /\ calculateSpecificityScore(response) >= 40
  /\ feedbackMessage = << "acceptance", 0 >>

====
